---------------------------- MODULE Spec2Model ----------------------------
(***************************************************************************)
(* psx-data-downloader (src/main.go): a process that optionally backloads *)
(* a range of dates and then, forever, sleeps until 23:00 Asia/Karachi and *)
(* ingests that day's market summary: download, unzip, parse the          *)
(* pipe-delimited text and INSERT OR REPLACE every row into SQLite inside  *)
(* one transaction.                                                        *)
(*                                                                         *)
(* Text is a sequence of one-character strings.  A file is a sequence of   *)
(* lines (the text between two line feeds).  Instants are minutes on the   *)
(* Asia/Karachi wall clock counted from local midnight of day 0; a         *)
(* calendar date is a day number.                                          *)
(***************************************************************************)
EXTENDS Integers, Sequences, FiniteSets, Bags, TLC

(***************************************************************************)
(* Bounds of the model.                                                    *)
(***************************************************************************)
MaxLines == 2
MaxDay == 2
MaxDays == 2

(***************************************************************************)
(* Program constants.                                                      *)
(***************************************************************************)
MinFields == 10
TriggerHour == 23
MinutesPerHour == 60
HoursPerDay == 24
KarachiOffset == 300

MinutesPerDay == HoursPerDay * MinutesPerHour

(***************************************************************************)
(* Text helpers: strings.TrimSpace, strings/bytes index functions.         *)
(***************************************************************************)
Digits == <<"0", "1", "2", "3", "4", "5", "6", "7", "8", "9">>

IsDigit(c) == \E i \in 1..10 : Digits[i] = c

DigitVal(c) == (CHOOSE i \in 1..10 : Digits[i] = c) - 1

IsSpace(c) == c \in {" ", "\t", "\r", "\n"}

RECURSIVE TrimLeft(_)
TrimLeft(s) ==
    IF s # <<>> /\ IsSpace(Head(s)) THEN TrimLeft(Tail(s)) ELSE s

RECURSIVE TrimRight(_)
TrimRight(s) ==
    IF s # <<>> /\ IsSpace(s[Len(s)]) THEN TrimRight(SubSeq(s, 1, Len(s) - 1)) ELSE s

TrimSpace(s) == TrimRight(TrimLeft(s))

\* bytes.IndexByte: the first position of c in s, 0 when there is none.
IndexByte(s, c) ==
    IF \E i \in 1..Len(s) : s[i] = c
    THEN CHOOSE i \in 1..Len(s) : s[i] = c /\ \A j \in 1..(i - 1) : s[j] # c
    ELSE 0

Drop(s, n) == SubSeq(s, n + 1, Len(s))

Take(s, n) == SubSeq(s, 1, n)

RECURSIVE AllDigits(_)
AllDigits(s) == s = <<>> \/ (IsDigit(Head(s)) /\ AllDigits(Tail(s)))

RECURSIVE DigitsVal(_)
DigitsVal(s) ==
    IF s = <<>> THEN 0 ELSE DigitsVal(SubSeq(s, 1, Len(s) - 1)) * 10 + DigitVal(s[Len(s)])

(***************************************************************************)
(* encoding/csv Reader with Comma = '|', FieldsPerRecord = -1, LazyQuotes  *)
(* off, as configured at main.go:170-172.  Read returns one record, or an  *)
(* error, and leaves the reader after the lines it consumed.               *)
(***************************************************************************)
Comma == "|"

Quote == "\""

\* The reader while it reads one record: lines is the input, pos the index of
\* the next line, line the rest of the current one, fields the fields read so
\* far, acc the text so far of a quoted field.  mode is "start" before the
\* record's first line, "field" at the start of a field, "quoted" inside a
\* quoted field, "done" once Read returns err and record.
Reader(mode, lines, pos, line, fields, acc, err) ==
    [mode |-> mode, lines |-> lines, pos |-> pos, line |-> line, fields |-> fields,
     acc |-> acc, err |-> err]

Returned(st, err, record) == Reader("done", st.lines, st.pos, <<>>, record, <<>>, err)

\* readRecord skips empty lines; the end of the input is io.EOF.
StartStep(st) ==
    IF st.pos > Len(st.lines) THEN Returned(st, "EOF", <<>>)
    ELSE IF st.lines[st.pos] = <<>>
    THEN Reader("start", st.lines, st.pos + 1, <<>>, <<>>, <<>>, "nil")
    ELSE Reader("field", st.lines, st.pos + 1, st.lines[st.pos], <<>>, <<>>, "nil")

\* A field that does not begin with a quote runs to the next comma or to the
\* end of the line and must hold no quote; one that does is a quoted field.
FieldStep(st) ==
    LET i == IndexByte(st.line, Comma)
        field == IF i > 0 THEN Take(st.line, i - 1) ELSE st.line
    IN  IF st.line # <<>> /\ Head(st.line) = Quote
        THEN Reader("quoted", st.lines, st.pos, Tail(st.line), st.fields, <<>>, "nil")
        ELSE IF IndexByte(field, Quote) > 0 THEN Returned(st, "ErrBareQuote", <<>>)
        ELSE IF i > 0
        THEN Reader("field", st.lines, st.pos, Drop(st.line, i), Append(st.fields, field),
                    <<>>, "nil")
        ELSE Returned(st, "nil", Append(st.fields, field))

\* A quoted field runs to the next quote, over line ends if it must: a
\* doubled quote is a quote of the text, a quote before a comma or the end of
\* the line closes the field, any other quote is an error, and so is the end
\* of the input.
QuotedStep(st) ==
    LET i == IndexByte(st.line, Quote)
        got == st.acc \o Take(st.line, i - 1)
        rest == Drop(st.line, i)
    IN  IF i > 0 /\ rest # <<>> /\ Head(rest) = Quote
        THEN Reader("quoted", st.lines, st.pos, Tail(rest), st.fields, got \o <<Quote>>, "nil")
        ELSE IF i > 0 /\ rest # <<>> /\ Head(rest) = Comma
        THEN Reader("field", st.lines, st.pos, Tail(rest), Append(st.fields, got), <<>>, "nil")
        ELSE IF i > 0 /\ rest = <<>> THEN Returned(st, "nil", Append(st.fields, got))
        ELSE IF i > 0 THEN Returned(st, "ErrQuote", <<>>)
        ELSE IF st.pos <= Len(st.lines)
        THEN Reader("quoted", st.lines, st.pos + 1, st.lines[st.pos], st.fields,
                    st.acc \o st.line \o <<"\n">>, "nil")
        ELSE Returned(st, "ErrQuote", <<>>)

ReaderStep(st) ==
    IF st.mode = "start" THEN StartStep(st)
    ELSE IF st.mode = "field" THEN FieldStep(st)
    ELSE QuotedStep(st)

\* The reader runs to the end of the record.  Each state is bound once, by the
\* singleton set, so that it is computed once however often the step reads it.
RECURSIVE RunReader(_)
RunReader(st) ==
    IF st.mode = "done" THEN st
    ELSE CHOOSE out \in {RunReader(next) : next \in {ReaderStep(st)}} : TRUE

\* csv.Reader.Read with the reader standing before line pos.
ReadRecord(lines, pos) ==
    LET st == RunReader(Reader("start", lines, pos, <<>>, <<>>, <<>>, "nil")) IN
    [err |-> st.err, record |-> st.fields, pos |-> st.pos]

(***************************************************************************)
(* time.Parse("02Jan2006", s) and Time.Format("2006-01-02").               *)
(***************************************************************************)
MonthNames ==
    << <<"J", "a", "n">>, <<"F", "e", "b">>, <<"M", "a", "r">>, <<"A", "p", "r">>,
       <<"M", "a", "y">>, <<"J", "u", "n">>, <<"J", "u", "l">>, <<"A", "u", "g">>,
       <<"S", "e", "p">>, <<"O", "c", "t">>, <<"N", "o", "v">>, <<"D", "e", "c">> >>

IsLeap(y) == y % 4 = 0 /\ (y % 100 # 0 \/ y % 400 = 0)

DaysIn(m, y) ==
    IF m = 2 THEN (IF IsLeap(y) THEN 29 ELSE 28)
    ELSE IF m \in {4, 6, 9, 11} THEN 30 ELSE 31

\* The layout is two digits, a month name, four digits; the day must exist.
ParseRecordDate(s) ==
    LET dd == SubSeq(s, 1, 2)
        mon == SubSeq(s, 3, 5)
        yyyy == SubSeq(s, 6, 9)
        shaped == /\ Len(s) = 9
                  /\ AllDigits(dd)
                  /\ AllDigits(yyyy)
                  /\ \E m \in 1..12 : MonthNames[m] = mon
        m == CHOOSE k \in 1..12 : MonthNames[k] = mon
        d == DigitsVal(dd)
        y == DigitsVal(yyyy)
    IN  IF shaped /\ d >= 1 /\ d <= DaysIn(m, y)
        THEN [ok |-> TRUE, year |-> y, month |-> m, day |-> d]
        ELSE [ok |-> FALSE, year |-> 0, month |-> 0, day |-> 0]

Pad(n, width) ==
    [i \in 1..width |-> Digits[((n \div (10 ^ (width - i))) % 10) + 1]]

\* The date written day first: Format("02-01-2006").
FormatDayFirst(t) ==
    Pad(t.day, 2) \o <<"-">> \o Pad(t.month, 2) \o <<"-">> \o Pad(t.year, 4)

FormatDate(t) ==
    Pad(t.year, 4) \o <<"-">> \o Pad(t.month, 2) \o <<"-">> \o Pad(t.day, 2)

(***************************************************************************)
(* parseNumeric and parseInt.  A REAL is kept as hundredths.  The decimal  *)
(* notation [+-]digits[.digits] is covered; the input lines of the model   *)
(* use no other notation that strconv accepts (exponents, Inf, NaN, hex).  *)
(***************************************************************************)
Unsigned(s) == IF s # <<>> /\ Head(s) \in {"+", "-"} THEN Tail(s) ELSE s

Negative(s) == s # <<>> /\ Head(s) = "-"

\* The largest int, and its digits.  int is taken 32 bits wide, as on the
\* 32-bit builds of the program; on the 64-bit builds the same happens at
\* 9223372036854775807.
MaxInt == 2147483647

MaxIntText == <<"2", "1", "4", "7", "4", "8", "3", "6", "4", "7">>

RECURSIVE StripZeros(_)
StripZeros(u) == IF Len(u) > 1 /\ Head(u) = "0" THEN StripZeros(Tail(u)) ELSE u

\* For digit texts of one length: a is a greater number than b.
RECURSIVE DigitsGreater(_, _)
DigitsGreater(a, b) ==
    IF a = <<>> THEN FALSE
    ELSE IF Head(a) # Head(b) THEN DigitVal(Head(a)) > DigitVal(Head(b))
    ELSE DigitsGreater(Tail(a), Tail(b))

\* The digits u are a number greater than MaxInt.
TooBig(u) ==
    LET z == StripZeros(u) IN
    Len(z) > Len(MaxIntText) \/ (Len(z) = Len(MaxIntText) /\ DigitsGreater(z, MaxIntText))

\* strconv.Atoi: an optional sign and digits.  On a syntax error the value is
\* 0; on a range error it is the int of largest magnitude of the sign.
Atoi(s) ==
    LET u == Unsigned(s) IN
    IF u = <<>> \/ ~AllDigits(u) THEN [val |-> 0, ok |-> FALSE]
    ELSE IF ~TooBig(u)
    THEN [val |-> IF Negative(s) THEN 0 - DigitsVal(u) ELSE DigitsVal(u), ok |-> TRUE]
    ELSE IF Negative(s)
    THEN [val |-> (0 - MaxInt) - 1,
          ok |-> StripZeros(u) = <<"2", "1", "4", "7", "4", "8", "3", "6", "4", "8">>]
    ELSE [val |-> MaxInt, ok |-> FALSE]

\* strconv.ParseFloat, in hundredths.
ParseFloat(s) ==
    LET u == Unsigned(s)
        dot == IndexByte(u, ".")
        ip == IF dot > 0 THEN Take(u, dot - 1) ELSE u
        fp == IF dot > 0 THEN Drop(u, dot) ELSE <<>>
        f2 == Take(fp \o <<"0", "0">>, 2)
        mag == DigitsVal(ip) * 100 + DigitsVal(f2)
    IN  IF (ip # <<>> \/ fp # <<>>) /\ AllDigits(ip) /\ AllDigits(fp) /\ Len(fp) <= 2
        THEN [val |-> IF Negative(s) THEN 0 - mag ELSE mag, ok |-> TRUE]
        ELSE [val |-> 0, ok |-> FALSE]

parseNumeric(s) ==
    LET t == TrimSpace(s) IN
    IF t = <<>> \/ t = <<"0">> \/ t = <<"0", ".", "0">>
    THEN [val |-> 0, ok |-> TRUE]
    ELSE ParseFloat(t)

parseInt(s) ==
    LET t == TrimSpace(s) IN
    IF t = <<>> \/ t = <<"0">> THEN [val |-> 0, ok |-> TRUE] ELSE Atoi(t)

(***************************************************************************)
(* The lines a published file is made of.                                  *)
(***************************************************************************)
\* 01Jan2024|AAA|001|Acme Corp|10|12|9|11|1000|9.5
RowAcme ==
    <<"0", "1", "J", "a", "n", "2", "0", "2", "4", "|", "A", "A", "A", "|",
      "0", "0", "1", "|", "A", "c", "m", "e", " ", "C", "o", "r", "p", "|",
      "1", "0", "|", "1", "2", "|", "9", "|", "1", "1", "|", "1", "0", "0",
      "0", "|", "9", ".", "5">>

\* 01Jan2024| AAA|001|Acme|x|12|9|11|-5|9.5
RowAcmeNew ==
    <<"0", "1", "J", "a", "n", "2", "0", "2", "4", "|", " ", "A", "A", "A",
      "|", "0", "0", "1", "|", "A", "c", "m", "e", "|", "x", "|", "1", "2",
      "|", "9", "|", "1", "1", "|", "-", "5", "|", "9", ".", "5">>

\* 02Jan2024|BBB|002|Beta|1|2|0.5|1.5|2147483648|1
RowBeta ==
    <<"0", "2", "J", "a", "n", "2", "0", "2", "4", "|", "B", "B", "B", "|",
      "0", "0", "2", "|", "B", "e", "t", "a", "|", "1", "|", "2", "|", "0",
      ".", "5", "|", "1", ".", "5", "|", "2", "1", "4", "7", "4", "8", "3",
      "6", "4", "8", "|", "1">>

\* 01Jan2024|CCC|003
RowShort ==
    <<"0", "1", "J", "a", "n", "2", "0", "2", "4", "|", "C", "C", "C", "|",
      "0", "0", "3">>

\* 31Feb2024|AAA|001|Acme|1|1|1|1|1|1
RowBadDate ==
    <<"3", "1", "F", "e", "b", "2", "0", "2", "4", "|", "A", "A", "A", "|",
      "0", "0", "1", "|", "A", "c", "m", "e", "|", "1", "|", "1", "|", "1",
      "|", "1", "|", "1", "|", "1">>

\* 01Jan2024|B"B|002|Beta|1|2|1|1|7|1
RowBareQuote ==
    <<"0", "1", "J", "a", "n", "2", "0", "2", "4", "|", "B", "\"", "B", "|",
      "0", "0", "2", "|", "B", "e", "t", "a", "|", "1", "|", "2", "|", "1",
      "|", "1", "|", "7", "|", "1">>

\* "01Jan2024|AAA|001|Acme|1|1|1|1|1|1
RowOpenQuote ==
    <<"\"", "0", "1", "J", "a", "n", "2", "0", "2", "4", "|", "A", "A", "A",
      "|", "0", "0", "1", "|", "A", "c", "m", "e", "|", "1", "|", "1", "|",
      "1", "|", "1", "|", "1", "|", "1">>

Lines ==
    {RowAcme, RowAcmeNew, RowBeta, RowShort, RowBadDate, RowBareQuote, RowOpenQuote}

\* Every file of at most n lines.
RECURSIVE FilesUpTo(_)
FilesUpTo(n) ==
    IF n = 0 THEN {<<>>}
    ELSE LET S == FilesUpTo(n - 1) IN S \cup {Append(f, l) : f \in S, l \in Lines}

Files == FilesUpTo(MaxLines)

ShortFiles == FilesUpTo(1)

(***************************************************************************)
(* What the remote source answers.  A payload is a zip archive (a list of  *)
(* entries, each with its bytes and whether opening or reading it fails),  *)
(* a single compressed stream, or bytes that are neither.                  *)
(***************************************************************************)
Entry(f, fault) == [data |-> f, fault |-> fault]

ZipOf(es) == [kind |-> "zip", entries |-> es, data |-> <<>>]

StreamOf(f) == [kind |-> "stream", entries |-> <<>>, data |-> f]

Garbage == [kind |-> "garbage", entries |-> <<>>, data |-> <<>>]

NoPayload == [kind |-> "none", entries |-> <<>>, data |-> <<>>]

Payloads ==
    {ZipOf(<<Entry(f, "none")>>) : f \in Files}
        \cup {ZipOf(<<Entry(f, "none"), Entry(g, "none")>>) :
                 f \in ShortFiles, g \in {<<>>, <<RowBeta>>}}
        \cup {ZipOf(<<Entry(<<>>, x)>>) : x \in {"open", "read"}}
        \cup {ZipOf(<<>>), Garbage}
        \cup {StreamOf(f) : f \in ShortFiles}

Response(fault, status, body) == [fault |-> fault, status |-> status, body |-> body]

Responses ==
    {Response("transport", 0, NoPayload),
     Response("none", 404, NoPayload),
     Response("body", 200, NoPayload)}
        \cup {Response("none", 200, p) : p \in Payloads}

(***************************************************************************)
(* The store: table market_data as the bag of its rows without the         *)
(* surrogate id, which nothing reads.                                      *)
(***************************************************************************)
SameKey(r, row) == r.date = row.date /\ r.symbol = row.symbol

DeleteRows(t, S) == [r \in BagToSet(t) \ S |-> t[r]]

\* A plain INSERT into a table without the uniqueness constraint.
InsertPlain(t, row) == t (+) SetToBag({row})

\* INSERT OR IGNORE: a row in conflict with a stored one is dropped.
InsertOrIgnore(t, row) ==
    IF \E r \in BagToSet(t) : SameKey(r, row) THEN t ELSE t (+) SetToBag({row})

\* INSERT OR REPLACE under UNIQUE(date, symbol): the rows in conflict with
\* the new one are deleted, then it is inserted.
InsertOrReplace(t, row) ==
    DeleteRows(t, {r \in BagToSet(t) : SameKey(r, row)}) (+) SetToBag({row})

Keys(t) == {<<r.date, r.symbol>> : r \in BagToSet(t)}

RowsOfKey(t, k) == {r \in BagToSet(t) : <<r.date, r.symbol>> = k}

RECURSIVE SumCounts(_, _)
SumCounts(t, S) ==
    IF S = {} THEN 0
    ELSE LET r == CHOOSE x \in S : TRUE IN t[r] + SumCounts(t, S \ {r})

CountOfKey(t, k) == SumCounts(t, RowsOfKey(t, k))

\* The arguments of the statement with the symbol as it stands in the file.
RowOfUntrimmed(record, t) ==
    [date |-> FormatDate(t),
     symbol |-> record[2],
     code |-> TrimSpace(record[3]),
     company_name |-> TrimSpace(record[4]),
     open |-> parseNumeric(record[5]).val,
     high |-> parseNumeric(record[6]).val,
     low |-> parseNumeric(record[7]).val,
     close |-> parseNumeric(record[8]).val,
     volume |-> parseInt(record[9]).val,
     previous_close |-> parseNumeric(record[10]).val]

\* The arguments of stmt.Exec at main.go:273 for an accepted record.
RowOf(record, t) ==
    [date |-> FormatDate(t),
     symbol |-> TrimSpace(record[2]),
     code |-> TrimSpace(record[3]),
     company_name |-> TrimSpace(record[4]),
     open |-> parseNumeric(record[5]).val,
     high |-> parseNumeric(record[6]).val,
     low |-> parseNumeric(record[7]).val,
     close |-> parseNumeric(record[8]).val,
     volume |-> parseInt(record[9]).val,
     previous_close |-> parseNumeric(record[10]).val]

(***************************************************************************)
(* State.                                                                  *)
(*   main:  pc, backloadFrom, backloadTo, startDate, endDate, currentDate, *)
(*          now (the last reading of the clock), nextRun, exitCode         *)
(*   processMarketData:  ipc, caller, date, zipData, fileData, rpos (the   *)
(*          csv reader's position), opened (the database handle), tx (the  *)
(*          rows the open transaction sees), recordCount, errorCount, err  *)
(*   SQLite file:  schema (table market_data exists), db (its rows)        *)
(*   history:  storeBefore (schema and db when the call began), written and failed (the  *)
(*          line positions whose stmt.Exec succeeded, failed), repeat (the *)
(*          call fetched the payload of the call before it, which had      *)
(*          committed), prevFailed (failed of that call), fetched (a GET   *)
(*          was issued), invoked (the dates backloadData called with),     *)
(*          dailyFailed (a daily run has returned an error), log (what the *)
(*          record loop of the call has read and done, in order)           *)
(***************************************************************************)
VARIABLES pc, backloadFrom, backloadTo, startDate, endDate, currentDate, now,
          nextRun, exitCode, ipc, caller, date, zipData, fileData, rpos, opened,
          tx, recordCount, errorCount, err, schema, db, storeBefore, written,
          failed, repeat, prevFailed, fetched, invoked, dailyFailed, log

mainVars == <<pc, backloadFrom, backloadTo, startDate, endDate, currentDate,
              now, nextRun, exitCode, invoked, dailyFailed>>

callVars == <<caller, date, storeBefore>>

fetchVars == <<zipData, repeat, prevFailed, fetched>>

rowVars == <<rpos, tx, recordCount, errorCount, written, failed, log>>

storeVars == <<schema, db>>

vars == <<pc, backloadFrom, backloadTo, startDate, endDate, currentDate, now,
          nextRun, exitCode, ipc, caller, date, zipData, fileData, rpos, opened,
          tx, recordCount, errorCount, err, schema, db, storeBefore, written,
          failed, repeat, prevFailed, fetched, invoked, dailyFailed, log>>

(***************************************************************************)
(* processMarketData (main.go:110-295), one action per stage.              *)
(***************************************************************************)
\* The call: control enters the function with its argument.
Call(who, d) ==
    /\ ipc = "idle"
    /\ ipc' = "fetch"
    /\ caller' = who
    /\ date' = d
    /\ storeBefore' = <<schema, db>>
    /\ opened' = FALSE

\* A return statement with error e.
Return(e) == ipc' = "return" /\ err' = e

\* Control is back in the caller: the locals of the call are gone, the
\* deferred db.Close() has run.
PopFrame ==
    /\ ipc' = "idle"
    /\ caller' = "none"
    /\ date' = 0
    /\ fileData' = <<>>
    /\ rpos' = 1
    /\ opened' = FALSE
    /\ tx' = EmptyBag
    /\ recordCount' = 0
    /\ errorCount' = 0
    /\ storeBefore' = <<FALSE, EmptyBag>>
    /\ written' = {}
    /\ repeat' = FALSE
    /\ prevFailed' = {}
    /\ log' = <<>>

\* main keeps nothing of a call but its error, which it logs.
Forget == zipData' = NoPayload /\ err' = "none" /\ failed' = {}

\* main.go:116-135: the GET, the status check, the read of the body.
Fetch(resp) ==
    /\ ipc = "fetch"
    /\ fetched' = TRUE
    /\ written' = {}
    /\ failed' = {}
    /\ \/ /\ resp.fault = "transport"
          /\ Return("download")
          /\ zipData' = NoPayload
          /\ repeat' = FALSE
          /\ prevFailed' = {}
       \/ /\ resp.fault # "transport"
          /\ resp.status # 200
          /\ Return("status")
          /\ zipData' = NoPayload
          /\ repeat' = FALSE
          /\ prevFailed' = {}
       \/ /\ resp.fault = "body"
          /\ resp.status = 200
          /\ Return("body")
          /\ zipData' = NoPayload
          /\ repeat' = FALSE
          /\ prevFailed' = {}
       \/ /\ resp.fault = "none"
          /\ resp.status = 200
          /\ ipc' = "unzip"
          /\ zipData' = resp.body
          /\ repeat' = (repeat /\ resp.body = zipData)
          /\ prevFailed' = IF repeat /\ resp.body = zipData THEN failed ELSE {}
          /\ UNCHANGED err
    /\ UNCHANGED <<mainVars, callVars, storeVars, fileData, rpos, opened, tx,
                   recordCount, errorCount, log>>

\* The first file of the archive (main.go:146-163).
FirstFault(entries) == IF entries = <<>> THEN "none" ELSE entries[1].fault

FirstData(entries) == IF entries = <<>> THEN <<>> ELSE entries[1].data

\* A missing test: no archive is ever taken to be empty.
NeverNil(entries) == FALSE

\* main.go:165: fileData is nil exactly when the loop body never ran.
NoFileData(entries) == entries = <<>>

\* main.go:137-167: zip.NewReader, then the first entry of the archive.
Unzip ==
    /\ ipc = "unzip"
    /\ \/ /\ zipData.kind # "zip"
          /\ Return("zip")
          /\ UNCHANGED fileData
       \/ /\ zipData.kind = "zip"
          /\ FirstFault(zipData.entries) = "open"
          /\ Return("zipOpen")
          /\ UNCHANGED fileData
       \/ /\ zipData.kind = "zip"
          /\ FirstFault(zipData.entries) = "read"
          /\ Return("zipRead")
          /\ UNCHANGED fileData
       \/ /\ zipData.kind = "zip"
          /\ FirstFault(zipData.entries) = "none"
          /\ NoFileData(zipData.entries)
          /\ Return("noFiles")
          /\ UNCHANGED fileData
       \/ /\ zipData.kind = "zip"
          /\ FirstFault(zipData.entries) = "none"
          /\ ~NoFileData(zipData.entries)
          /\ fileData' = FirstData(zipData.entries)
          /\ ipc' = "open"
          /\ UNCHANGED err
    /\ UNCHANGED <<mainVars, callVars, fetchVars, rowVars, storeVars, opened>>

\* main.go:174-201: sql.Open and CREATE TABLE IF NOT EXISTS.
OpenStore(openOk, createOk) ==
    /\ ipc = "open"
    /\ \/ /\ ~openOk
          /\ Return("dbOpen")
          /\ UNCHANGED <<opened, schema>>
       \/ /\ openOk
          /\ ~createOk
          /\ opened' = TRUE
          /\ Return("createTable")
          /\ UNCHANGED schema
       \/ /\ openOk
          /\ createOk
          /\ opened' = TRUE
          /\ schema' = TRUE
          /\ ipc' = "begin"
          /\ UNCHANGED err
    /\ UNCHANGED <<mainVars, callVars, fetchVars, rowVars, db, fileData>>

\* main.go:205-222: db.Begin, tx.Prepare, the two counters.
Begin(beginOk, prepareOk) ==
    /\ ipc = "begin"
    /\ \/ /\ ~beginOk
          /\ Return("begin")
          /\ UNCHANGED <<rpos, tx, recordCount, errorCount>>
       \/ /\ beginOk
          /\ ~prepareOk
          /\ Return("prepare")
          /\ UNCHANGED <<rpos, tx, recordCount, errorCount>>
       \/ /\ beginOk
          /\ prepareOk
          /\ tx' = db
          /\ rpos' = 1
          /\ recordCount' = 0
          /\ errorCount' = 0
          /\ ipc' = "rows"
          /\ UNCHANGED err
    /\ UNCHANGED <<mainVars, callVars, fetchVars, storeVars, fileData, opened,
                   written, failed, log>>

\* The statement of main.go:210-214 run on the transaction's rows.
ExecInsert(t, row) == InsertOrReplace(t, row)

\* A failed statement that takes the transaction's earlier writes with it.
ExecAborts(pending, durable) == durable

\* What the transaction holds after a statement that failed (main.go:274-278):
\* the statement alone is undone, the loop goes on with the same transaction.
ExecFailure(pending, durable) == pending

\* A skipped record that is not counted.
ForgetSkipped(n) == n

\* errorCount++ (main.go:233, 244, 255, 276), before each continue.
CountSkipped(n) == n + 1

\* No row: the record was not accepted.
NoRow ==
    [date |-> <<>>, symbol |-> <<>>, code |-> <<>>, company_name |-> <<>>, open |-> 0,
     high |-> 0, low |-> 0, close |-> 0, volume |-> 0, previous_close |-> 0]

\* One iteration of the loop: the reader stood at position at and returned r,
\* the iteration ended at outcome, row was bound to the statement.
Logged(at, r, outcome, row) ==
    [at |-> at, next |-> r.pos, err |-> r.err, record |-> r.record, outcome |-> outcome,
     row |-> row]

\* main.go:225-281: one iteration of the record loop.
ReadRow(execOk) ==
    /\ ipc = "rows"
    /\ \E r \in {ReadRecord(fileData, rpos)} :
       \E t \in {IF r.err = "nil" /\ Len(r.record) >= MinFields
                 THEN ParseRecordDate(TrimSpace(r.record[1]))
                 ELSE ParseRecordDate(<<>>)} :
       \E row \in {IF t.ok THEN RowOf(r.record, t) ELSE NoRow} :
       LET at == rpos
       IN  /\ rpos' = r.pos
           /\ \/ /\ r.err = "EOF"
                 /\ ipc' = "commit"
                 /\ UNCHANGED <<tx, recordCount, errorCount, written, failed, log>>
              \/ /\ r.err \notin {"EOF", "nil"}
                 /\ errorCount' = CountSkipped(errorCount)
                 /\ log' = Append(log, Logged(at, r, "reader", NoRow))
                 /\ UNCHANGED <<ipc, tx, recordCount, written, failed>>
              \/ /\ r.err = "nil"
                 /\ Len(r.record) < MinFields
                 /\ errorCount' = CountSkipped(errorCount)
                 /\ log' = Append(log, Logged(at, r, "short", NoRow))
                 /\ UNCHANGED <<ipc, tx, recordCount, written, failed>>
              \/ /\ r.err = "nil"
                 /\ Len(r.record) >= MinFields
                 /\ ~t.ok
                 /\ errorCount' = CountSkipped(errorCount)
                 /\ log' = Append(log, Logged(at, r, "date", NoRow))
                 /\ UNCHANGED <<ipc, tx, recordCount, written, failed>>
              \/ /\ r.err = "nil"
                 /\ Len(r.record) >= MinFields
                 /\ t.ok
                 /\ ~execOk
                 /\ errorCount' = CountSkipped(errorCount)
                 /\ failed' = failed \cup {at}
                 /\ tx' = ExecFailure(tx, db)
                 /\ log' = Append(log, Logged(at, r, "exec", row))
                 /\ UNCHANGED <<ipc, recordCount, written>>
              \/ /\ r.err = "nil"
                 /\ Len(r.record) >= MinFields
                 /\ t.ok
                 /\ execOk
                 /\ tx' = ExecInsert(tx, row)
                 /\ recordCount' = recordCount + 1
                 /\ written' = written \cup {at}
                 /\ log' = Append(log, Logged(at, r, "written", row))
                 /\ UNCHANGED <<ipc, errorCount, failed>>
    /\ UNCHANGED <<mainVars, callVars, fetchVars, storeVars, fileData, opened, err>>

\* A failed COMMIT that leaves the rows of the batch in the file.
CommitKeepsPending(durable, pending) == pending

\* What a failed COMMIT leaves in the file: the driver rolls back.
CommitFailure(durable, pending) == durable

\* main.go:283-294: tx.Commit and the final return.
Commit(commitOk) ==
    /\ ipc = "commit"
    /\ \/ /\ ~commitOk
          /\ db' = CommitFailure(db, tx)
          /\ Return("commit")
       \/ /\ commitOk
          /\ db' = tx
          /\ Return("nil")
    /\ UNCHANGED <<mainVars, callVars, fetchVars, rowVars, schema, fileData, opened>>

(***************************************************************************)
(* Time.  An instant is a number of minutes on the Asia/Karachi wall clock *)
(* (UTC+5, no daylight saving rule in force) from local midnight of day 0. *)
(* The backload dates are parsed as UTC midnights.                         *)
(***************************************************************************)
Horizon == MaxDays * MinutesPerDay

\* What the clock can have advanced by between two readings.
Elapsed == {0, 5, 65}

\* The instants the process can be started at: 22:00, 23:00, 23:05 of day 0.
StartTimes ==
    {22 * MinutesPerHour, TriggerHour * MinutesPerHour, TriggerHour * MinutesPerHour + 5}

\* time.Parse("2006-01-02", s) of the text of day d: midnight UTC.
UtcMidnight(d) == d * MinutesPerDay + KarachiOffset

\* Format("2006-01-02") of a UTC time, and of a time in Asia/Karachi.
UtcDate(t) == (t - KarachiOffset) \div MinutesPerDay

LocalDate(t) == t \div MinutesPerDay

\* The next run without the roll to tomorrow.
NextRunToday(n) == LocalDate(n) * MinutesPerDay + TriggerHour * MinutesPerHour

\* main.go:72-76.
NextRun(n) ==
    LET today == LocalDate(n) * MinutesPerDay + TriggerHour * MinutesPerHour IN
    IF n > today THEN today + HoursPerDay * MinutesPerHour ELSE today

Max(a, b) == IF a > b THEN a ELSE b

(***************************************************************************)
(* The command line: a date flag is absent (the empty string), unparsable, *)
(* or the text of a day.                                                   *)
(***************************************************************************)
NoFlag == [text |-> "empty", day |-> 0]

BadFlag == [text |-> "bad", day |-> 0]

DateFlag(d) == [text |-> "date", day |-> d]

Flags == {NoFlag, BadFlag} \cup {DateFlag(d) : d \in 0..MaxDay}

(***************************************************************************)
(* main (main.go:21-91) and backloadData (main.go:94-108).                 *)
(***************************************************************************)
Exit(code) == pc' = "exited" /\ exitCode' = code

\* The range test with its operands swapped.
RangeSwapped(start, end) == end > start

\* main.go:46: the range test.
RangeInverted(start, end) == start > end

\* main.go:29-55: the flags, up to the call of backloadData.
ParseFlags ==
    /\ pc = "flags"
    /\ LET start == UtcMidnight(backloadFrom.day)
           end == IF backloadTo.text = "empty" THEN now ELSE UtcMidnight(backloadTo.day)
       IN  \/ /\ backloadFrom.text = "empty"
              /\ pc' = "tz"
              /\ UNCHANGED <<startDate, endDate, currentDate, exitCode>>
           \/ /\ backloadFrom.text = "bad"
              /\ Exit(1)
              /\ UNCHANGED <<startDate, endDate, currentDate>>
           \/ /\ backloadFrom.text = "date"
              /\ backloadTo.text = "bad"
              /\ Exit(1)
              /\ startDate' = start
              /\ UNCHANGED <<endDate, currentDate>>
           \/ /\ backloadFrom.text = "date"
              /\ backloadTo.text # "bad"
              /\ RangeInverted(start, end)
              /\ Exit(1)
              /\ startDate' = start
              /\ endDate' = end
              /\ UNCHANGED currentDate
           \/ /\ backloadFrom.text = "date"
              /\ backloadTo.text # "bad"
              /\ ~RangeInverted(start, end)
              /\ pc' = "backload"
              /\ startDate' = start
              /\ endDate' = end
              /\ currentDate' = start
              /\ UNCHANGED exitCode
    /\ UNCHANGED <<backloadFrom, backloadTo, now, nextRun, invoked, dailyFailed, ipc, callVars,
                   fetchVars, rowVars, storeVars, fileData, opened, err>>

\* main.go:96: the loop test of backloadData.
InRange(cur, end) == cur < end

\* main.go:96-99: the loop test, then the call for currentDate; 57: the return
\* to main when the range is done.
BackloadNext ==
    /\ pc = "backload"
    /\ ipc = "idle"
    /\ \/ /\ InRange(currentDate, endDate)
          /\ Call("backload", UtcDate(currentDate))
          /\ invoked' = Append(invoked, UtcDate(currentDate))
          /\ UNCHANGED pc
       \/ /\ ~InRange(currentDate, endDate)
          /\ pc' = "tz"
          /\ UNCHANGED <<ipc, callVars, opened, invoked>>
    /\ UNCHANGED <<backloadFrom, backloadTo, startDate, endDate, currentDate, now,
                   nextRun, exitCode, dailyFailed, fetchVars, rowVars, storeVars, fileData, err>>

\* A backload that gives up the range on the first failed date.
AbortOnError(e) == IF e = "nil" THEN "backload" ELSE "tz"

\* What backloadData does with the result of a call (main.go:100-104): both
\* branches only log, the loop goes on.
AfterBackload(e) == "backload"

\* main.go:100-106: the result is logged, the date advances by one day.
BackloadReturn ==
    /\ pc = "backload"
    /\ ipc = "return"
    /\ PopFrame
    /\ Forget
    /\ pc' = AfterBackload(err)
    /\ currentDate' = currentDate + MinutesPerDay
    /\ UNCHANGED <<backloadFrom, backloadTo, startDate, endDate, now, nextRun,
                   exitCode, invoked, dailyFailed, fetched, storeVars>>

\* main.go:61-65: time.LoadLocation.
LoadLocation(ok) ==
    /\ pc = "tz"
    /\ IF ok THEN pc' = "loop" /\ UNCHANGED exitCode ELSE Exit(1)
    /\ UNCHANGED <<backloadFrom, backloadTo, startDate, endDate, currentDate, now,
                   nextRun, invoked, dailyFailed, ipc, callVars, fetchVars, rowVars, storeVars,
                   fileData, opened, err>>

\* main.go:69-80: the clock is read and the next run computed.
Schedule(passed) ==
    /\ pc = "loop"
    /\ now + passed <= Horizon
    /\ now' = now + passed
    /\ nextRun' = NextRun(now + passed)
    /\ pc' = "sleep"
    /\ UNCHANGED <<backloadFrom, backloadTo, startDate, endDate, currentDate,
                   exitCode, invoked, dailyFailed, ipc, callVars, fetchVars, rowVars, storeVars,
                   fileData, opened, err>>

\* main.go:82-86: the sleep ends at nextRun or later, the clock is read and
\* processMarketData called with it.
Wake(late) ==
    /\ pc = "sleep"
    /\ ipc = "idle"
    /\ now' = Max(now, nextRun) + late
    /\ Call("daily", LocalDate(Max(now, nextRun) + late))
    /\ pc' = "run"
    /\ UNCHANGED <<backloadFrom, backloadTo, startDate, endDate, currentDate,
                   nextRun, exitCode, invoked, dailyFailed, fetchVars, rowVars, storeVars,
                   fileData, err>>

\* A main that gives up on the first failed run.
StopOnError(e) == IF e = "nil" THEN "loop" ELSE "exited"

\* What main does with the result of a daily run (main.go:87-90).
AfterDaily(e) == "loop"

\* main.go:87-90: an error is logged, the loop goes round.
DailyReturn ==
    /\ pc = "run"
    /\ ipc = "return"
    /\ PopFrame
    /\ Forget
    /\ pc' = AfterDaily(err)
    /\ dailyFailed' = (dailyFailed \/ err # "nil")
    /\ UNCHANGED <<backloadFrom, backloadTo, startDate, endDate, currentDate, now,
                   nextRun, exitCode, invoked, fetched, storeVars>>

(***************************************************************************)
(* The program.  The remote source answers any call with one of            *)
(* MainResponses; a store operation may fail at any call.                  *)
(***************************************************************************)
MainResponses ==
    {Response("transport", 0, NoPayload),
     Response("none", 404, NoPayload),
     Response("body", 200, NoPayload),
     Response("none", 200, Garbage),
     Response("none", 200, ZipOf(<<>>)),
     Response("none", 200, ZipOf(<<Entry(<<>>, "open")>>)),
     Response("none", 200, ZipOf(<<Entry(<<>>, "read")>>)),
     Response("none", 200, ZipOf(<<Entry(<<RowAcme, RowShort>>, "none")>>)),
     Response("none", 200, ZipOf(<<Entry(<<RowBadDate, RowBareQuote>>, "none")>>))}

Init ==
    /\ pc = "flags"
    /\ backloadFrom \in Flags
    /\ backloadTo \in IF backloadFrom = NoFlag THEN {DateFlag(0)} ELSE Flags
    /\ now \in StartTimes
    /\ startDate = 0
    /\ endDate = 0
    /\ currentDate = 0
    /\ nextRun = 0
    /\ exitCode = 0
    /\ invoked = <<>>
    /\ ipc = "idle"
    /\ caller = "none"
    /\ date = 0
    /\ zipData = NoPayload
    /\ fileData = <<>>
    /\ rpos = 1
    /\ opened = FALSE
    /\ tx = EmptyBag
    /\ recordCount = 0
    /\ errorCount = 0
    /\ err = "none"
    /\ schema = FALSE
    /\ db = EmptyBag
    /\ storeBefore = <<FALSE, EmptyBag>>
    /\ written = {}
    /\ failed = {}
    /\ repeat = FALSE
    /\ prevFailed = {}
    /\ fetched = FALSE
    /\ dailyFailed = FALSE
    /\ log = <<>>

Steps(R) ==
    \/ \E resp \in R : Fetch(resp)
    \/ Unzip
    \/ \E openOk, createOk \in BOOLEAN : OpenStore(openOk, createOk)
    \/ \E beginOk, prepareOk \in BOOLEAN : Begin(beginOk, prepareOk)
    \/ \E execOk \in BOOLEAN : ReadRow(execOk)
    \/ \E commitOk \in BOOLEAN : Commit(commitOk)

Next ==
    \/ ParseFlags
    \/ BackloadNext
    \/ BackloadReturn
    \/ \E ok \in BOOLEAN : LoadLocation(ok)
    \/ \E passed \in Elapsed : Schedule(passed)
    \/ \E late \in Elapsed : Wake(late)
    \/ DailyReturn
    \/ Steps(MainResponses)

Spec == Init /\ [][Next]_vars

(***************************************************************************)
(* processMarketData on its own: called again and again (main.go:86, 99),  *)
(* for any date, against the same database file, the remote source         *)
(* answering with any of Responses.  Again is a call for the same date     *)
(* right after one that committed: the payload and the failed writes of    *)
(* that call are remembered until the new call has fetched.                *)
(***************************************************************************)
InitIngest ==
    /\ pc = "calls"
    /\ backloadFrom = NoFlag
    /\ backloadTo = NoFlag
    /\ now = 0
    /\ startDate = 0
    /\ endDate = 0
    /\ currentDate = 0
    /\ nextRun = 0
    /\ exitCode = 0
    /\ invoked = <<>>
    /\ ipc = "idle"
    /\ caller = "none"
    /\ date = 0
    /\ zipData = NoPayload
    /\ fileData = <<>>
    /\ rpos = 1
    /\ opened = FALSE
    /\ tx = EmptyBag
    /\ recordCount = 0
    /\ errorCount = 0
    /\ err = "none"
    /\ schema = FALSE
    /\ db = EmptyBag
    /\ storeBefore = <<FALSE, EmptyBag>>
    /\ written = {}
    /\ failed = {}
    /\ repeat = FALSE
    /\ prevFailed = {}
    /\ fetched = FALSE
    /\ dailyFailed = FALSE
    /\ log = <<>>

Invoke(d) ==
    /\ pc = "calls"
    /\ Call("any", d)
    /\ UNCHANGED <<mainVars, fetchVars, rowVars, storeVars, fileData, err>>

Resume ==
    /\ pc = "calls"
    /\ ipc = "return"
    /\ PopFrame
    /\ Forget
    /\ UNCHANGED <<mainVars, fetched, storeVars>>

Again ==
    /\ pc = "calls"
    /\ ipc = "return"
    /\ err = "nil"
    /\ ipc' = "fetch"
    /\ storeBefore' = <<schema, db>>
    /\ repeat' = TRUE
    /\ fileData' = <<>>
    /\ rpos' = 1
    /\ opened' = FALSE
    /\ tx' = EmptyBag
    /\ recordCount' = 0
    /\ errorCount' = 0
    /\ written' = {}
    /\ prevFailed' = {}
    /\ log' = <<>>
    /\ UNCHANGED <<mainVars, caller, date, zipData, err, failed, fetched, storeVars>>

NextIngest ==
    \/ \E d \in {0, MaxDay} : Invoke(d)
    \/ Resume
    \/ Again
    \/ Steps(Responses)

SpecIngest == InitIngest /\ [][NextIngest]_vars

(***************************************************************************)
(* The program under the scheduling it runs with: a single thread that is  *)
(* never stopped from outside takes its next step.                         *)
(***************************************************************************)
FairSpec == Spec /\ WF_vars(Next)

(***************************************************************************)
(* The computation of the next run on its own: the loop of main entered at *)
(* any minute of the first MaxDays days.                                   *)
(***************************************************************************)
InitTrigger ==
    /\ pc = "loop"
    /\ backloadFrom = NoFlag
    /\ backloadTo = DateFlag(0)
    /\ now \in 0..Horizon
    /\ startDate = 0
    /\ endDate = 0
    /\ currentDate = 0
    /\ nextRun = 0
    /\ exitCode = 0
    /\ invoked = <<>>
    /\ ipc = "idle"
    /\ caller = "none"
    /\ date = 0
    /\ zipData = NoPayload
    /\ fileData = <<>>
    /\ rpos = 1
    /\ opened = FALSE
    /\ tx = EmptyBag
    /\ recordCount = 0
    /\ errorCount = 0
    /\ err = "none"
    /\ schema = FALSE
    /\ db = EmptyBag
    /\ storeBefore = <<FALSE, EmptyBag>>
    /\ written = {}
    /\ failed = {}
    /\ repeat = FALSE
    /\ prevFailed = {}
    /\ fetched = FALSE
    /\ dailyFailed = FALSE
    /\ log = <<>>

NextTrigger == \E passed \in Elapsed : Schedule(passed)

SpecTrigger == InitTrigger /\ [][NextTrigger]_vars

(***************************************************************************)
(* Properties.                                                             *)
(***************************************************************************)
Committed == ipc = "return" /\ err = "nil"

Unique(t) == \A k \in Keys(t) : CountOfKey(t, k) <= 1

\* C1 (SpecIngest): uniqueness.  In every reachable state, whatever calls
\* were made and however they ended, the table holds at most one row for each
\* (date, symbol) pair, and so does the view of an open transaction.
C1_Uniqueness == Unique(db) /\ Unique(tx)

\* C1, its case: a committed call that wrote the same key twice from one file
\* into a table that already held a row of that key.
C1_Witness ==
    /\ Committed
    /\ Cardinality(written) = 2
    /\ Cardinality(Keys(db)) = 1
    /\ storeBefore[2] # EmptyBag
    /\ Keys(storeBefore[2]) = Keys(db)

DaysBetween(a, b) ==
    [i \in 1..(UtcDate(b) - UtcDate(a) + 1) |-> UtcDate(a) + i - 1]

BackloadDone == backloadFrom.text = "date" /\ pc \in {"tz", "loop", "sleep", "run"}

\* C3 (Spec): backload coverage.  Once backloadData has returned, it has
\* called processMarketData exactly once for each date from the start date to
\* the end date, both included, in ascending order, and for no other date.
C3_BackloadCoversRange == BackloadDone => invoked = DaysBetween(startDate, endDate)

\* C4 (SpecIngest): format fallback.  After decompression an archive has
\* yielded the bytes of its first entry, a single compressed stream has
\* yielded its bytes and the call goes on to parsing, and the call fails as
\* an unsupported format only for a payload that is neither.
C4_FormatFallback ==
    /\ (ipc \in {"open", "begin", "rows", "commit"} /\ zipData.kind = "zip")
           => fileData = zipData.entries[1].data
    /\ (ipc \notin {"idle", "fetch", "unzip"} /\ zipData.kind = "stream")
           => (fileData = zipData.data /\ err # "zip")
    /\ (ipc = "return" /\ err = "zip") => zipData.kind \notin {"zip", "stream"}

\* C5 (SpecIngest): batch atomicity.  A call whose transaction could not be
\* opened, prepared or committed returns an error and leaves in the table
\* exactly the rows it held when the call began; until the commit the table
\* shows none of the rows written in the transaction.
C5_BatchAtomicity ==
    /\ (ipc = "return" /\ err \in {"begin", "prepare", "commit"}) => db = storeBefore[2]
    /\ ipc \in {"rows", "commit"} => db = storeBefore[2]

\* C5, its case: the commit failed after rows that differ from the table's
\* were written in the transaction.
C5_Witness ==
    /\ ipc = "return"
    /\ err = "commit"
    /\ written # {}
    /\ tx # db

\* The fetch failed, or the payload is no archive, has no entry, or its first
\* entry cannot be opened or read.
StageFailed ==
    \/ zipData.kind # "zip"
    \/ zipData.entries = <<>>
    \/ zipData.entries[1].fault # "none"

\* C6 (SpecIngest): a failed fetch or a failed decompression ends the call
\* with an error before the store is opened: no handle, no schema statement,
\* no row; schema and rows are those of the start of the call.
C6_StageFailureLeavesStore ==
    (ipc \notin {"idle", "fetch", "unzip"} /\ StageFailed)
        => /\ ipc = "return"
           /\ err \notin {"nil", "none"}
           /\ ~opened
           /\ <<schema, db>> = storeBefore

\* C6, its case: an archive without entries was fetched while the table held
\* rows of earlier calls.
C6_Witness ==
    /\ ipc = "return"
    /\ err = "noFiles"
    /\ zipData = ZipOf(<<>>)
    /\ db # EmptyBag

Alone(line) == ReadRecord(<<line>>, 1)

\* A line the reader cannot tokenize, or one with too few fields.
Malformed(line) ==
    \/ Alone(line).err \notin {"nil", "EOF"}
    \/ Alone(line).err = "nil" /\ Len(Alone(line).record) < MinFields

\* A line that is a complete record with a date that parses.
WellFormed(line) ==
    /\ Alone(line).err = "nil"
    /\ Len(Alone(line).record) >= MinFields
    /\ ParseRecordDate(TrimSpace(Alone(line).record[1])).ok

\* C7 (SpecIngest): tolerant parsing.  When the record loop has ended, no
\* malformed line was written or counted as inserted, and the write of every
\* well-formed line that follows a malformed one was executed in the batch.
C7_TolerantParsing ==
    ipc = "commit" =>
        /\ \A i \in 1..Len(fileData) :
               Malformed(fileData[i]) => i \notin written
        /\ recordCount = Cardinality(written)
        /\ \A i, j \in 1..Len(fileData) :
               (i < j /\ Malformed(fileData[i]) /\ WellFormed(fileData[j]))
                   => j \in written \cup failed

\* C8 (Spec): range validation.  With a start date after the end date the
\* process goes from the flags straight to exit status 1: no GET was issued,
\* no call made, the store not touched, the daily loop never entered.
C8_RangeValidation ==
    (/\ pc # "flags"
     /\ backloadFrom.text = "date"
     /\ backloadTo.text # "bad"
     /\ startDate > endDate)
        => /\ pc = "exited"
           /\ exitCode = 1
           /\ ~fetched
           /\ ipc = "idle"
           /\ invoked = <<>>
           /\ <<schema, db>> = <<FALSE, EmptyBag>>

\* C8, its case: the process has exited on a start date after the end date.
C8_Witness ==
    /\ pc = "exited"
    /\ backloadFrom.text = "date"
    /\ backloadTo.text = "date"
    /\ backloadFrom.day > backloadTo.day
    /\ startDate > endDate

AtTrigger(t) == t % MinutesPerDay = TriggerHour * MinutesPerHour

\* C9 (SpecTrigger): the next run is an instant at 23:00 local, not before
\* now and less than a day after it: 23:00 of now's day when now is not past
\* it, 23:00 of the day after when it is.
C9_NextTrigger ==
    pc = "sleep" =>
        /\ AtTrigger(nextRun)
        /\ now <= nextRun
        /\ nextRun - now < MinutesPerDay
        /\ LocalDate(nextRun) = IF now % MinutesPerDay <= TriggerHour * MinutesPerHour
                                THEN LocalDate(now)
                                ELSE LocalDate(now) + 1
        /\ now = 22 * MinutesPerHour => nextRun = 23 * MinutesPerHour
        /\ now = 23 * MinutesPerHour + 5 => nextRun = MinutesPerDay + 23 * MinutesPerHour

\* C9, its case: the run computed at 23:05 is on the day after.
C9_Witness ==
    /\ pc = "sleep"
    /\ now = TriggerHour * MinutesPerHour + 5
    /\ LocalDate(nextRun) = 1

\* C10 (FairSpec): a daily run never ends the process.  From a daily call,
\* whatever it returns, main goes back to its loop; within the days the model
\* covers a failed run is followed by the wait for the next run, and every
\* wait is followed by a call.
C10_DailyLoopGoesOn ==
    /\ [][pc = "run" => pc' \in {"run", "loop"}]_vars
    /\ [](pc = "run" /\ ipc = "return" /\ err # "nil" /\ now <= Horizon => <>(pc = "sleep"))
    /\ [](pc = "sleep" => <>(pc = "run" /\ ipc = "fetch"))

\* C10, its case: main waits for the next run after a daily run that failed.
C10_Witness == pc = "sleep" /\ dailyFailed /\ nextRun > TriggerHour * MinutesPerHour

\* The dates whose UTC midnight is at or after start and before end, in order.
DatesBefore(start, end) ==
    LET first == UtcDate(start)
        n == Cardinality({d \in 0..(MaxDay + MaxDays + 1) :
                             UtcMidnight(d) >= start /\ UtcMidnight(d) < end})
    IN  [i \in 1..n |-> first + i - 1]

\* The calls of backloadData so far are for consecutive dates from the start.
Consecutive(seq, first) == \A i \in 1..Len(seq) : seq[i] = first + i - 1

\* C11 (Spec): backload isolation and order.  Whatever its calls return,
\* backloadData calls once for each date in turn, never twice for a date, and
\* returns only when no date of its loop is left; a daily call is made only
\* after backloadData has returned, a backload call only inside it, and a call
\* begins only when no call is in progress.
C11_BackloadIsolation ==
    /\ [](backloadFrom.text = "date" /\ pc \notin {"flags", "exited"}
             => Consecutive(invoked, UtcDate(startDate)))
    /\ [](BackloadDone => invoked = DatesBefore(startDate, endDate))
    /\ [](ipc # "idle" => \/ caller = "backload" /\ pc = "backload"
                          \/ caller = "daily" /\ pc = "run")
    /\ [][pc = "backload" /\ ipc = "return"
             => pc' = "backload" /\ ipc' = "idle" /\ invoked' = invoked
                /\ currentDate' = currentDate + MinutesPerDay]_vars
    /\ [][(pc \in {"flags", "backload"}) \/ ~(pc' = "backload")]_vars
    /\ [][(caller' # caller /\ caller' # "none") => (ipc = "idle")]_vars

\* C11, its case: the call for the second date of a range is in progress
\* after the call for the first date failed before it created the table.
C11_Witness ==
    /\ pc = "backload"
    /\ ipc = "fetch"
    /\ caller = "backload"
    /\ Len(invoked) = 2
    /\ ~schema

\* What the loop has read so far, and the iteration that began at position i.
Entries == {log[k] : k \in 1..Len(log)}

EntryAt(i) == CHOOSE e \in Entries : e.at = i

\* The row the loop bound to the statement for the record read at position i.
LineRow(i) == EntryAt(i).row

\* The write at position i is the last of the batch so far for its key.
LastWrite(i) ==
    \A j \in written : j > i => ~SameKey(LineRow(j), LineRow(i))

\* The rows the batch has produced: the transaction's while it is open, the
\* table's once it is committed.
BatchRows == IF Committed THEN db ELSE tx

\* C12 (SpecIngest): upsert is a full replacement.  During the batch and
\* after its commit, the only row of a key is the row of the last record
\* written for it, field for field, whatever row the key had before.
C12_FullReplacement ==
    (ipc \in {"rows", "commit"} \/ Committed) =>
        \A i \in written :
            LastWrite(i) =>
                RowsOfKey(BatchRows, <<LineRow(i).date, LineRow(i).symbol>>) = {LineRow(i)}

\* C12, its case: a committed call wrote a record whose key had a row with
\* other field values before the call.
C12_Witness ==
    /\ Committed
    /\ \E i \in written :
           /\ <<LineRow(i).date, LineRow(i).symbol>> \in Keys(storeBefore[2])
           /\ LineRow(i) \notin BagToSet(storeBefore[2])
           /\ LineRow(i) \in BagToSet(db)

\* C13 (SpecIngest): no row of the table or of the open transaction has a
\* negative volume, and a record whose volume text is empty or is not an
\* integer is written with volume 0.
C13_VolumeNonNegative ==
    /\ \A r \in BagToSet(db) \cup BagToSet(tx) : r.volume >= 0
    /\ \A e \in Entries :
           (e.outcome = "written" /\ ~Atoi(TrimSpace(e.record[9])).ok) => e.row.volume = 0

\* The loop has read the file from its first line to its end, one record
\* after the other.
ReadToEnd ==
    /\ \A k \in 1..Len(log) : log[k].at = IF k = 1 THEN 1 ELSE log[k - 1].next
    /\ rpos = IF log = <<>> THEN 1 ELSE log[Len(log)].next
    /\ ReadRecord(fileData, rpos).err = "EOF"

\* The record of a loop entry has enough fields and a date that parses.
Accepted(e) ==
    /\ e.err = "nil"
    /\ Len(e.record) >= MinFields
    /\ ParseRecordDate(TrimSpace(e.record[1])).ok

\* The record of a loop entry is complete and its date does not parse.
BadDate(e) ==
    /\ e.err = "nil"
    /\ Len(e.record) >= MinFields
    /\ ~ParseRecordDate(TrimSpace(e.record[1])).ok

\* A text of the form YYYY-MM-DD.
Canonical(d) ==
    /\ Len(d) = 10
    /\ d[5] = "-"
    /\ d[8] = "-"
    /\ \A i \in {1, 2, 3, 4, 6, 7, 9, 10} : IsDigit(d[i])
    /\ DigitsVal(SubSeq(d, 6, 7)) \in 1..12
    /\ DigitsVal(SubSeq(d, 9, 10)) \in 1..31

\* The date text DDMonYYYY read off as YYYY-MM-DD.
Normalized(s) ==
    LET m == CHOOSE k \in 1..12 : MonthNames[k] = SubSeq(s, 3, 5) IN
    SubSeq(s, 6, 9) \o <<"-">> \o (IF m < 10 THEN <<"0", Digits[m + 1]>>
                                    ELSE <<"1", Digits[m - 9]>>)
        \o <<"-">> \o SubSeq(s, 1, 2)

\* 2024-01-01
Jan1 == <<"2", "0", "2", "4", "-", "0", "1", "-", "0", "1">>

\* C14 (SpecIngest): row dates.  Every stored date is of the form
\* YYYY-MM-DD; a written row is stored under the date of its own first field
\* in that form; a complete record whose date does not parse is not written,
\* and when the loop has ended it was counted as an error, the file was read
\* to its end and every accepted record was written or its write tried.  The
\* file of the line 01Jan2024|AAA|001|Acme Corp|10|12|9|11|1000|9.5 and a line
\* of 3 fields, committed into an empty table with no failed statement, gives
\* recordCount = 1, errorCount = 1 and the one row 2024-01-01, AAA, 1000.
C14_RowDates ==
    /\ \A r \in BagToSet(db) \cup BagToSet(tx) : Canonical(r.date)
    /\ \A e \in Entries :
           /\ e.outcome = "written" => e.row.date = Normalized(TrimSpace(e.record[1]))
           /\ BadDate(e) => e.at \notin written \cup failed
    /\ ipc = "commit" =>
           /\ ReadToEnd
           /\ errorCount = Cardinality(failed) + Cardinality({e \in Entries : ~Accepted(e)})
           /\ \A e \in Entries : Accepted(e) => e.at \in written \cup failed
    /\ (Committed /\ fileData = <<RowAcme, RowShort>> /\ failed = {}
            /\ storeBefore[2] = EmptyBag)
           => /\ recordCount = 1
              /\ errorCount = 1
              /\ Cardinality(BagToSet(db)) = 1
              /\ \A r \in BagToSet(db) :
                     r.date = Jan1 /\ r.symbol = <<"A", "A", "A">> /\ r.volume = 1000

\* C14, its case: a committed call whose file has a record with a date that
\* does not parse, followed by a record that was written under 2024-01-01.
C14_Witness ==
    /\ Committed
    /\ fileData = <<RowBadDate, RowAcme>>
    /\ written = {2}
    /\ errorCount = 1
    /\ \E r \in BagToSet(db) : r.date = Jan1

\* The columns converted by parseNumeric, with the field each is read from.
RealColumns == {<<"open", 5>>, <<"high", 6>>, <<"low", 7>>, <<"close", 8>>,
                <<"previous_close", 10>>}

\* C15 (SpecIngest): numeric tolerance.  When the loop has ended every
\* accepted record was written or its write tried, whatever its numeric
\* fields; and in a written row each numeric column is the converted value of
\* its own field when the conversion succeeds and zero when it fails.
C15_NumericTolerance ==
    /\ ipc = "commit" =>
           /\ ReadToEnd
           /\ \A e \in Entries : Accepted(e) => e.outcome \in {"written", "exec"}
    /\ \A e \in Entries :
           e.outcome = "written" =>
               /\ \A c \in RealColumns :
                      e.row[c[1]] = IF parseNumeric(e.record[c[2]]).ok
                                    THEN parseNumeric(e.record[c[2]]).val
                                    ELSE 0
               /\ e.row.volume = IF parseInt(e.record[9]).ok
                                 THEN parseInt(e.record[9]).val
                                 ELSE 0

\* C16 (SpecIngest): row-level write tolerance.  A failed statement adds one
\* to errorCount and leaves the loop running on the same transaction with its
\* earlier writes; the loop is left only for the commit, reached with the file
\* read to its end and every accepted record written or its write tried; and
\* after a successful commit the table holds the row of the last successful
\* write of every key written.
C16_WriteTolerance ==
    /\ [][(failed' # failed /\ failed' # {})
             => /\ ipc = "rows"
                /\ ipc' = "rows"
                /\ errorCount' = errorCount + 1
                /\ recordCount' = recordCount
                /\ tx' = tx
                /\ written' = written]_vars
    /\ [][(ipc = "rows") => (ipc' \in {"rows", "commit"})]_vars
    /\ [](ipc = "commit" =>
             /\ ReadToEnd
             /\ \A e \in Entries : Accepted(e) => e.at \in written \cup failed)
    /\ [](Committed =>
             \A i \in written : LastWrite(i) => LineRow(i) \in BagToSet(db))

\* C16, its case: a call has committed a row written after the statement of
\* an earlier record had failed.
C16_Witness ==
    /\ Committed
    /\ \E i \in failed : \E j \in written : j > i /\ LineRow(j) \in BagToSet(db)
    /\ errorCount >= 1
    /\ recordCount >= 1

\* A daily run has returned: nextRun still holds the run's trigger until the
\* loop computes the next one.
AfterRun == pc = "loop" /\ nextRun # 0

\* C17 (Spec): one daily call per trigger.  A daily call is made at or after
\* its trigger and for the local date of that trigger, and the trigger
\* computed after a daily call has returned is on a later local date than the
\* trigger of that call, however long the call took.
C17_OneRunPerTrigger ==
    /\ [](pc = "run" => now >= nextRun /\ date = LocalDate(nextRun))
    /\ [][AfterRun => LocalDate(nextRun') > LocalDate(nextRun)]_vars

\* The loop of the call has ended and its counters are still in scope.
LoopEnded == ipc = "commit" \/ (ipc = "return" /\ err \in {"nil", "commit"})

NonEmptyLines(file) == {i \in 1..Len(file) : file[i] # <<>>}

AcceptedKeys ==
    {<<Normalized(TrimSpace(e.record[1])), TrimSpace(e.record[2])>> :
        e \in {x \in Entries : Accepted(x)}}

\* Table t against the table at the start of the call, keys being the keys
\* of the file: no key is gone, and a row of another key is there as it was.
Frame(t, keys) ==
    /\ Keys(storeBefore[2]) \subseteq Keys(t)
    /\ \A r \in BagToSet(storeBefore[2]) \cup BagToSet(t) :
           <<r.date, r.symbol>> \notin keys
               => /\ r \in BagToSet(storeBefore[2])
                  /\ r \in BagToSet(t)
                  /\ t[r] = storeBefore[2][r]

\* The date of day d as the call formats it for the URL (main.go:113): day 0
\* is 2024-01-01.
DayText(d) == FormatDate([year |-> 2024, month |-> 1, day |-> d + 1])

\* C19 (SpecIngest): the frame of a call.  From its start to its return a
\* call deletes no key and changes no row, in the table or in its
\* transaction, but those of the keys of the accepted records it has read
\* from its file.
C19_Frame ==
    /\ ipc \in {"fetch", "unzip"} => db = storeBefore[2]
    /\ ipc \in {"open", "begin", "rows", "commit", "return"} =>
           \A keys \in {AcceptedKeys} : Frame(db, keys)
    /\ ipc \in {"rows", "commit"} =>
           \A keys \in {AcceptedKeys} : Frame(tx, keys)

\* C19, its case: a call has committed a new row whose date is not the date
\* of the call, and the table keeps a row of the date of the call whose
\* symbol is not in the file.
C19_Witness ==
    /\ Committed
    /\ \E r \in BagToSet(db) \ BagToSet(storeBefore[2]) : r.date # DayText(date)
    /\ \E r \in BagToSet(storeBefore[2]) :
           /\ r.date = DayText(date)
           /\ \A k \in AcceptedKeys : k[2] # r.symbol
           /\ r \in BagToSet(db)

=============================================================================
